---- MODULE Spec2Model ----
(***************************************************************************)
(* A model of edalize's command-graph writer (utils.py, EdaCommands), the  *)
(* Radiant tool-project backend (radiant.py) and the Verilator simulator   *)
(* backend (verilator.py).                                                 *)
(*                                                                         *)
(* Text is modelled structurally: a file is a sequence of lines and a line *)
(* is a sequence of string tokens (their concatenation is the line's       *)
(* text); the empty string "" of the code is the empty token sequence.     *)
(* A Python dict is a sequence of <<key, value>> pairs with distinct keys, *)
(* in insertion order.                                                     *)
(***************************************************************************)
EXTENDS Integers, Sequences, FiniteSets, TLC

VARIABLES
    commands,        \* EdaCommands.commands
    default_target,  \* EdaCommands.default_target (NoAttr: attribute never set)
    src_files,       \* Edatool fileset: ordered list of source files
    incdirs,         \* Edatool fileset: include directories
    generic,         \* Edatool.generic
    vlogparam,       \* Edatool.vlogparam
    vlogdefine,      \* Edatool.vlogdefine
    plusarg,         \* Edatool.plusarg
    cmdlinearg,      \* Edatool.cmdlinearg
    tool_options,    \* Edatool.tool_options
    toplevel,        \* Edatool.toplevel
    fs,              \* the working directory: file key -> content or NoFile
    log,             \* logger.warning records, in emission order
    procs,           \* _run_tool invocations, in start order
    pc,              \* the caller's position in the configure/build/run passes
    error,           \* the exception the last operation raised, or "none"
    ret              \* the value the last pure-function call returned

vars == <<commands, default_target, src_files, incdirs, generic, vlogparam,
          vlogdefine, plusarg, cmdlinearg, tool_options, toplevel, fs, log,
          procs, pc, error, ret>>

(***************************************************************************)
(* Bounds                                                                  *)
(***************************************************************************)
MaxCommands == 2
MaxFiles == 2

(***************************************************************************)
(* Shared helpers                                                          *)
(***************************************************************************)
NoFile == <<<<"<absent>">>>>
NoAttr == "<no attribute>"
Unset == "<unset>"
OldContent == <<<<"<old content>">>>>
FileKeys == {"outfile", "tcl", "run_tcl", "vc", "Makefile", "config_mk"}
EmptyDir == [k \in FileKeys |-> NoFile]
OldDir == [k \in FileKeys |-> OldContent]
name == "my.prj"

RECURSIVE JoinT(_, _)
\* sep.join(items) where every item is itself a token sequence
JoinT(sep, items) ==
    IF items = <<>> THEN <<>>
    ELSE IF Len(items) = 1 THEN items[1]
    ELSE items[1] \o <<sep>> \o JoinT(sep, Tail(items))

\* sep.join(items) for a list of strings
Join(sep, items) == JoinT(sep, [i \in 1..Len(items) |-> <<items[i]>>])

RECURSIVE Flatten(_)
Flatten(ss) == IF ss = <<>> THEN <<>> ELSE Head(ss) \o Flatten(Tail(ss))

(***************************************************************************)
(* utils.py: EdaCommands                                                   *)
(***************************************************************************)
CmdTokens == {<<>>, <<"echo", "x">>}
TargetLists == {<<"a">>, <<"b", "c">>}
DependLists == {<<>>, <<"d">>}
OrderOnlyLists == {<<>>, <<"o">>}
DefaultTargets == {"", "a"}

Command(command, targets, depends, order_only_deps) ==
    [command |-> command, targets |-> targets, depends |-> depends,
     order_only_deps |-> order_only_deps]

header == <<<<"#Auto generated by Edalize">>, <<>>>>

\* the text written for one command c: a blank line, the rule line and
\* the launcher line when c has a command
RuleLines(c) ==
    <<<<>>,
      Join(" ", c.targets) \o <<":">>
        \o Flatten([i \in 1..Len(c.depends) |-> <<" ", c.depends[i]>>])
        \o (IF c.order_only_deps # <<>>
            THEN <<" |">> \o Flatten([i \in 1..Len(c.order_only_deps) |->
                                        <<" ", c.order_only_deps[i]>>])
            ELSE <<>>)>>
    \o (IF c.command # <<>>
        THEN <<<<"\t$(EDALIZE_LAUNCHER) ">> \o Join(" ", c.command)>>
        ELSE <<>>)

CmdUnchanged ==
    UNCHANGED <<src_files, incdirs, generic, vlogparam, vlogdefine, plusarg,
                cmdlinearg, tool_options, toplevel, log, procs, ret>>

CmdInit ==
    /\ commands = <<>>
    /\ default_target = NoAttr
    /\ src_files = <<>> /\ incdirs = <<>> /\ generic = <<>>
    /\ vlogparam = <<>> /\ vlogdefine = <<>> /\ plusarg = <<>>
    /\ cmdlinearg = <<>> /\ tool_options = <<>> /\ toplevel = "top"
    /\ fs \in {EmptyDir, OldDir}
    /\ log = <<>> /\ procs = <<>> /\ pc = "writer" /\ error = "none"
    /\ ret = <<>>

add ==
    /\ Len(commands) < MaxCommands
    /\ \E command \in CmdTokens, targets \in TargetLists,
          depends \in DependLists, order_only_deps \in OrderOnlyLists :
         commands' = Append(commands,
                            Command(command, targets, depends, order_only_deps))
    /\ error' = "none"
    /\ pc' = "add"
    /\ UNCHANGED <<default_target, fs>>
    /\ CmdUnchanged

set_default_target ==
    /\ \E target \in DefaultTargets : default_target' = target
    /\ error' = "none"
    /\ pc' = "set_default_target"
    /\ UNCHANGED <<commands, fs>>
    /\ CmdUnchanged

\* what write leaves in outfile, and the exception it ends with
WriteOutcome ==
    IF default_target = NoAttr
    THEN [text |-> header, error |-> "AttributeError"]
    ELSE IF default_target = ""
    THEN [text |-> header,
          error |-> "RuntimeError: Internal Edalize error. Missing default target"]
    ELSE [text |-> header \o <<<<"all: ", default_target>>>>
                     \o Flatten([i \in 1..Len(commands) |-> RuleLines(commands[i])]),
          error |-> "none"]

write ==
    /\ fs' = [fs EXCEPT !["outfile"] = WriteOutcome.text]
    /\ error' = WriteOutcome.error
    /\ pc' = "write"
    /\ UNCHANGED <<commands, default_target>>
    /\ CmdUnchanged

CmdNext == add \/ set_default_target \/ write

SpecCmd == CmdInit /\ [][CmdNext]_vars

MissingDefaultTarget ==
    "RuntimeError: Internal Edalize error. Missing default target"
IsAllRule(l) == l # <<>> /\ l[1] = "all: "
IsStepRule(l) == \E i \in 1..Len(l) : l[i] = ":"

\* C3: a write on a writer whose default target was never set, or was set
\* to the empty target, fails with the 'Missing default target'
\* RuntimeError and leaves no 'all:' rule and no step rule in the file.
C3_WriteWithoutDefaultTargetIsRuntimeError ==
    (pc = "write" /\ default_target \in {NoAttr, ""}) =>
        /\ error = MissingDefaultTarget
        /\ \A i \in 1..Len(fs["outfile"]) :
              ~IsAllRule(fs["outfile"][i]) /\ ~IsStepRule(fs["outfile"][i])

(***************************************************************************)
(* Edatool collaborators that radiant.py and verilator.py call             *)
(***************************************************************************)
FileNames == <<"f1", "f2", "f3", "f4">>
File(n, t, l) == [name |-> n, file_type |-> t, logical_name |-> l]

\* a parameter value: its Python type and its str() text
IntVal(s) == [t |-> "int", s |-> s]
StrVal(s) == [t |-> "str", s |-> s]

\* Edatool._param_value_str(value, str_quote_style): a string is wrapped
\* in the quote character, any other value is the bare token
_param_value_str(value, str_quote_style) ==
    IF value.t = "str" THEN <<str_quote_style, value.s, str_quote_style>>
    ELSE <<value.s>>

\* edalize.utils.get_file_type(f): the declared type of the file
get_file_type(f) == f.file_type

(***************************************************************************)
(* radiant.py: Radiant                                                     *)
(***************************************************************************)
part == "LIFCL-40-9BG400C"

\* self.name.replace(".", "_")
prj_name == CASE name = "my.prj" -> "my_prj" [] OTHER -> name

_work_source(f) ==
    <<" -work ">> \o (IF f.logical_name # "" THEN <<f.logical_name>>
                      ELSE <<"work">>)

file_types == {"verilogSource", "systemVerilogSource", "vhdlSource", "PDC", "SDC"}

UnknownTypeWarning(f) == <<f.name, " has unknown file type '", f.file_type, "'">>

\* src_file_filter with the LPF type missing from the silently ignored types
\* and the logical name ignored in the work-library qualifier
src_file_filter_m(f) ==
    LET _file_type == get_file_type(f) IN
    IF _file_type \in file_types
    THEN [ret |-> <<"prj_add_source ", f.name, " -work ", "work">>, log |-> <<>>]
    ELSE IF _file_type = "tclSource"
    THEN [ret |-> <<"source ", f.name>>, log |-> <<>>]
    ELSE IF _file_type \in {"user"}
    THEN [ret |-> <<>>, log |-> <<>>]
    ELSE [ret |-> <<>>, log |-> <<UnknownTypeWarning(f)>>]

\* src_file_filter(f): the returned directive and the warnings it logged
src_file_filter(f) ==
    LET _file_type == get_file_type(f) IN
    IF _file_type \in file_types
    THEN [ret |-> <<"prj_add_source ", f.name>> \o _work_source(f), log |-> <<>>]
    ELSE IF _file_type = "tclSource"
    THEN [ret |-> <<"source ", f.name>>, log |-> <<>>]
    ELSE IF _file_type \in {"user", "LPF"}
    THEN [ret |-> <<>>, log |-> <<>>]
    ELSE [ret |-> <<>>, log |-> <<UnknownTypeWarning(f)>>]

MultiplePdcWarning ==
    <<"Multiple PDC files detected. Only the first one will be used">>

RECURSIVE PdcScan(_, _)
\* the loop over src_files of configure_main: the warnings it logs, given
\* the pdc_file found so far ("" for None)
PdcScan(files, pdc_file) ==
    IF files = <<>> THEN <<>>
    ELSE LET f == Head(files) IN
         IF f.file_type = "PDC"
         THEN IF pdc_file # ""
              THEN <<MultiplePdcWarning>> \o PdcScan(Tail(files), pdc_file)
              ELSE PdcScan(Tail(files), f.name)
         ELSE PdcScan(Tail(files), pdc_file)

KeyValue(kv) == <<kv[1], "=", kv[2].s>>
KeyParam(kv, quote) == <<kv[1], "=">> \o _param_value_str(kv[2], quote)

IncdirLines ==
    IF incdirs # <<>>
    THEN <<<<"prj_set_impl_opt {include path} {">> \o Join(" ", incdirs) \o <<"}">>>>
    ELSE <<>>

GenericLines ==
    IF generic # <<>>
    THEN <<<<"prj_set_impl_opt HDL_PARAM {">>
             \o JoinT(";", [i \in 1..Len(generic) |-> KeyValue(generic[i])])
             \o <<"}">>>>
    ELSE <<>>

VlogparamLines ==
    IF vlogparam # <<>>
    THEN <<<<"prj_set_impl_opt HDL_PARAM {">>
             \o JoinT(";", [i \in 1..Len(vlogparam) |-> KeyParam(vlogparam[i], "\"")])
             \o <<"}">>>>
    ELSE <<>>

VlogdefineLines ==
    IF vlogdefine # <<>>
    THEN <<<<"prj_set_impl_opt VERILOG_DIRECTIVES {">>
             \o JoinT(";", [i \in 1..Len(vlogdefine) |-> KeyValue(vlogdefine[i])])
             \o <<"}">>>>
    ELSE <<>>

RECURSIVE SourceLines(_)
\* the loop that writes one line per source file whose directive is not ""
SourceLines(files) ==
    IF files = <<>> THEN <<>>
    ELSE LET _s == src_file_filter(Head(files)).ret IN
         (IF _s # <<>> THEN <<_s>> ELSE <<>>) \o SourceLines(Tail(files))

\* TclText with the vlogparam directive written before the generic one and
\* the directives written whether or not their input is empty
TclText_m ==
    <<<<"#Generated by Edalize">>,
      <<"prj_create -name ", prj_name, " -impl \"impl\" -dev ", part>>,
      <<"prj_set_impl_opt top ", toplevel>>>>
    \o IncdirLines \o VlogparamLines \o GenericLines
    \o <<<<"prj_set_impl_opt VERILOG_DIRECTIVES {">>
           \o JoinT(";", [i \in 1..Len(vlogdefine) |-> KeyValue(vlogdefine[i])])
           \o <<"}">>>>
    \o SourceLines(src_files)
    \o <<<<"prj_save">>, <<"prj_close">>>>

\* the text of <name>.tcl
TclText ==
    <<<<"#Generated by Edalize">>,
      <<"prj_create -name ", prj_name, " -impl \"impl\" -dev ", part>>,
      <<"prj_set_impl_opt top ", toplevel>>>>
    \o IncdirLines \o GenericLines \o VlogparamLines \o VlogdefineLines
    \o SourceLines(src_files)
    \o <<<<"prj_save">>, <<"prj_close">>>>

\* the text of <name>_run.tcl
RunTclText ==
    <<<<"#Generated by Edalize">>,
      <<"prj_open ", prj_name, ".rdf">>,
      <<"prj_run Synthesis -impl impl -forceOne">>,
      <<"prj_run Map -impl impl">>,
      <<"prj_run PAR -impl impl">>,
      <<"prj_run Export -impl impl -task Bitgen">>,
      <<"prj_save">>,
      <<"prj_close">>>>

\* Input domains of the Radiant backend
RadiantTypes ==
    {"verilogSource", "systemVerilogSource", "vhdlSource", "PDC", "SDC",
     "tclSource", "user", "LPF", "cppSource", "vlt", "QSF", "xdc"}
RadiantProjectTypes ==
    {"verilogSource", "PDC", "SDC", "tclSource", "user", "LPF", "cppSource"}
LogicalNames == {"", "mylib"}
FileLists(types, lnames) ==
    UNION {{[i \in 1..k |-> File(FileNames[i], tl[i][1], tl[i][2])] :
              tl \in [1..k -> types \X lnames]} : k \in 0..MaxFiles}
IncdirLists == {<<>>, <<"inc">>, <<"inc", "rtl">>}
GenericDicts == {<<>>, <<<<"G1", IntVal("4")>>>>,
                 <<<<"G1", IntVal("4")>>, <<"G2", StrVal("fast")>>>>}
VlogparamDicts == {<<>>, <<<<"P1", IntVal("8")>>>>,
                   <<<<"P1", IntVal("8")>>, <<"P2", StrVal("hex")>>>>}
VlogdefineDicts == {<<>>, <<<<"D1", IntVal("1")>>>>}

RadiantInit ==
    /\ commands = <<>> /\ default_target = NoAttr
    /\ src_files \in FileLists(RadiantProjectTypes, LogicalNames)
    /\ incdirs \in IncdirLists
    /\ generic \in GenericDicts
    /\ vlogparam \in VlogparamDicts
    /\ vlogdefine \in VlogdefineDicts
    /\ plusarg = <<>> /\ cmdlinearg = <<>>
    /\ tool_options = [k \in {"part"} |-> part]
    /\ toplevel = "top"
    /\ fs = EmptyDir
    /\ log = <<>> /\ procs = <<>> /\ pc = "new" /\ error = "none"
    /\ ret = <<>>

Radiant_configure_main ==
    /\ pc = "new"
    /\ log' = log \o PdcScan(src_files, "")
                  \o Flatten([i \in 1..Len(src_files) |->
                                src_file_filter(src_files[i]).log])
    /\ fs' = [fs EXCEPT !["tcl"] = TclText, !["run_tcl"] = RunTclText]
    /\ pc' = "configured"
    /\ error' = "none"
    /\ UNCHANGED <<commands, default_target, src_files, incdirs, generic,
                   vlogparam, vlogdefine, plusarg, cmdlinearg, tool_options,
                   toplevel, procs, ret>>

RadiantNext == Radiant_configure_main

SpecRadiant == RadiantInit /\ [][RadiantNext]_vars

(***************************************************************************)
(* The file classification on its own: one file, classified once           *)
(***************************************************************************)
FilterInit ==
    /\ commands = <<>> /\ default_target = NoAttr
    /\ \E n \in {"f1", "f2"}, t \in RadiantTypes, l \in {"", "mylib", "lib2"} :
         src_files = <<File(n, t, l)>>
    /\ incdirs = <<>> /\ generic = <<>> /\ vlogparam = <<>>
    /\ vlogdefine = <<>> /\ plusarg = <<>> /\ cmdlinearg = <<>>
    /\ tool_options = [k \in {"part"} |-> part]
    /\ toplevel = "top"
    /\ fs = EmptyDir
    /\ log = <<>> /\ procs = <<>> /\ pc = "new" /\ error = "none"
    /\ ret = <<>>

Classify ==
    /\ pc = "new"
    /\ ret' = src_file_filter(src_files[1]).ret
    /\ log' = log \o src_file_filter(src_files[1]).log
    /\ pc' = "classified"
    /\ UNCHANGED <<commands, default_target, src_files, incdirs, generic,
                   vlogparam, vlogdefine, plusarg, cmdlinearg, tool_options,
                   toplevel, fs, procs, error>>

FilterNext == Classify

SpecFilter == FilterInit /\ [][FilterNext]_vars

(***************************************************************************)
(* verilator.py: Verilator                                                 *)
(*                                                                         *)
(* A scalar tool option is held as the text str() gives for it (True is    *)
(* "True", a string is itself), or Unset when the key is absent; a list    *)
(* option is a list of strings, or UnsetList when the key is absent.       *)
(***************************************************************************)
UnsetList == <<Unset>>
modes == {"binary", "cc", "dpi-hdr-only", "lint-only", "none",
          "preprocess-only", "sc", "xml-only"}
IllegalMode == "RuntimeError: Illegal verilator mode"
MissingTopModule == "RuntimeError: miss a mandatory parameter 'top_module'"
ToolFailed == "RuntimeError: tool returned an error"

\* str.lower() on the option texts in use
Lower(s) ==
    CASE s = "None" -> "none"
      [] s \in {"False", "FALSE"} -> "false"
      [] s \in {"True", "TRUE"} -> "true"
      [] OTHER -> s

\* str.startswith(prefix) on the file types in use
StartsWith(s, prefix) ==
    CASE prefix = "verilogSource" -> s \in {"verilogSource", "verilogSource-2005"}
      [] prefix = "systemVerilogSource" ->
            s \in {"systemVerilogSource", "systemVerilogSource-3.1a"}
      [] OTHER -> s = prefix

\* str(self.tool_options.get(key))
OptionStr(key) == IF tool_options[key] = Unset THEN "None" ELSE tool_options[key]

\* the mode once "Default to cc mode if not specified" has run
DefaultedMode == IF tool_options["mode"] = Unset THEN "cc" ELSE tool_options["mode"]

DeprecationWarning == <<"This backend is deprecated and will eventually be removed.">>
CliParserWarning == <<"The cli_parser argument is deprecated.">>

\* check_managed_parser: the warnings it logs
check_managed_parser ==
    IF tool_options["cli_parser"] = Unset \/ tool_options["cli_parser"] = "managed"
    THEN <<>>
    ELSE <<CliParserWarning>>

RECURSIVE NamesOf(_, _)
\* the names of the files, in order, that the bucket test puts in a bucket
NamesOf(files, bucket) ==
    IF files = <<>> THEN <<>>
    ELSE LET f == Head(files)
             b == IF StartsWith(f.file_type, "systemVerilogSource")
                     \/ StartsWith(f.file_type, "verilogSource") THEN "vlog"
                  ELSE IF f.file_type \in {"cppSource", "systemCSource", "cSource"}
                  THEN "opt_c"
                  ELSE IF f.file_type = "vlt" THEN "vlt"
                  ELSE "ignored"
         IN (IF b = bucket THEN <<f.name>> ELSE <<>>) \o NamesOf(Tail(files), bucket)

vlt_files == NamesOf(src_files, "vlt")
vlog_files == NamesOf(src_files, "vlog")
opt_c_files == NamesOf(src_files, "opt_c")

\* "\n".join(names) + "\n" written to a file: one line per name, and one
\* empty line when there is no name
JoinedLines(names) ==
    IF names = <<>> THEN <<<<>>>> ELSE [i \in 1..Len(names) |-> <<names[i]>>]

ModeLines(mode) == IF mode \in {"cc", "sc"} THEN <<<<"--", mode>>>> ELSE <<>>
LibLines ==
    IF tool_options["libs"] # UnsetList
    THEN [i \in 1..Len(tool_options["libs"]) |-> <<"-LDFLAGS ", tool_options["libs"][i]>>]
    ELSE <<>>
IncludeLines ==
    Flatten([i \in 1..Len(incdirs) |->
               <<<<"+incdir+", incdirs[i]>>, <<"-CFLAGS -I", incdirs[i]>>>>])
VltLines == IF vlt_files # <<>> THEN JoinedLines(vlt_files) ELSE <<>>
\* ExeLines with the exe option compared without lower()
ExeLines_m == IF OptionStr("exe") # "false" THEN <<<<"--exe">>>> ELSE <<>>

ExeLines == IF Lower(OptionStr("exe")) # "false" THEN <<<<"--exe">>>> ELSE <<>>
ParamLines ==
    [i \in 1..Len(vlogparam) |->
        <<"-G", vlogparam[i][1], "=">> \o _param_value_str(vlogparam[i][2], "\\\"")]
DefineLines ==
    [i \in 1..Len(vlogdefine) |->
        <<"-D", vlogdefine[i][1], "=">> \o _param_value_str(vlogdefine[i][2], "")]

\* the text of <name>.vc when the mode is legal
VcText(mode) ==
    <<<<"--Mdir .">>>>
    \o ModeLines(mode) \o LibLines \o IncludeLines \o VltLines
    \o JoinedLines(vlog_files)
    \o <<<<"--top-module ", toplevel>>>>
    \o ExeLines
    \o JoinedLines(opt_c_files)
    \o ParamLines \o DefineLines

MAKEFILE_TEMPLATE == <<<<"MAKEFILE_TEMPLATE">>>>

ListOption(key) ==
    IF tool_options[key] # UnsetList THEN Join(" ", tool_options[key]) ELSE <<>>

ConfigMkText ==
    <<<<"#Auto generated by Edalize">>, <<>>,
      <<"TOP_MODULE        := ", toplevel>>,
      <<"VC_FILE           := ", name, ".vc">>,
      <<"VERILATOR_OPTIONS := ">> \o ListOption("verilator_options"),
      <<"MAKE_OPTIONS      := ">> \o ListOption("make_options")>>

\* _write_config_files: the working directory it leaves and how it ends
_write_config_files ==
    IF DefaultedMode \notin modes
    THEN [fs |-> [fs EXCEPT !["vc"] = <<<<"--Mdir .">>>>], error |-> IllegalMode]
    ELSE [fs |-> [fs EXCEPT !["vc"] = VcText(DefaultedMode),
                            !["Makefile"] = MAKEFILE_TEMPLATE,
                            !["config_mk"] = ConfigMkText],
          error |-> "none"]

Verilator_configure_main ==
    /\ pc = "new"
    /\ error = "none"
    /\ log' = log \o <<DeprecationWarning>> \o check_managed_parser
    /\ IF toplevel = ""
       THEN /\ error' = MissingTopModule
            /\ UNCHANGED <<fs, tool_options>>
       ELSE /\ tool_options' = [tool_options EXCEPT !["mode"] = DefaultedMode]
            /\ fs' = _write_config_files.fs
            /\ error' = _write_config_files.error
    /\ pc' = "configured"
    /\ UNCHANGED <<commands, default_target, src_files, incdirs, generic,
                   vlogparam, vlogdefine, plusarg, cmdlinearg, toplevel,
                   procs, ret>>

\* one _run_tool call: the operation that made it, the tool, its arguments
\* and its exit code
Proc(op, tool, args, rc) == [op |-> op, tool |-> tool, args |-> args, rc |-> rc]

\* Edatool._run_tool called for each entry of plan in turn: the call
\* numbered failing exits non-zero, which raises and ends the operation;
\* failing = 0 lets every call succeed
_run_tool(op, plan, failing) ==
    [i \in 1..(IF failing = 0 THEN Len(plan) ELSE failing) |->
        Proc(op, plan[i][1], plan[i][2], IF i = failing THEN 1 ELSE 0)]

PhonyModes == {"binary", "dpi-hdr-only", "lint-only", "preprocess-only", "xml-only"}

\* BuildPlan without the test that skips the primary build in mode none
BuildPlan_m(mode) ==
    <<<<<<"make">>, IF mode \in PhonyModes THEN <<mode>> ELSE <<>>>>>>
    \o (IF Lower(OptionStr("gen-xml")) = "true"
        THEN <<<<<<"make">>, <<"xml-only">>>>>> ELSE <<>>)
    \o (IF Lower(OptionStr("gen-dpi-hdr")) = "true"
        THEN <<<<<<"make">>, <<"dpi-hdr-only">>>>>> ELSE <<>>)
    \o (IF Lower(OptionStr("gen-preprocess")) = "true"
        THEN <<<<<<"make">>, <<"preprocess-only">>>>>> ELSE <<>>)

\* BuildPlan with the additional builds started before the primary build
BuildPlan_m2(mode) ==
    (IF Lower(OptionStr("gen-xml")) = "true"
     THEN <<<<<<"make">>, <<"xml-only">>>>>> ELSE <<>>)
    \o (IF Lower(OptionStr("gen-dpi-hdr")) = "true"
        THEN <<<<<<"make">>, <<"dpi-hdr-only">>>>>> ELSE <<>>)
    \o (IF Lower(OptionStr("gen-preprocess")) = "true"
        THEN <<<<<<"make">>, <<"preprocess-only">>>>>> ELSE <<>>)
    \o (IF mode # "none"
        THEN <<<<<<"make">>, IF mode \in PhonyModes THEN <<mode>> ELSE <<>>>>>>
        ELSE <<>>)

\* the make invocations build_main asks for, in order, when the mode is legal
BuildPlan(mode) ==
    (IF mode # "none"
     THEN <<<<<<"make">>, IF mode \in PhonyModes THEN <<mode>> ELSE <<>>>>>>
     ELSE <<>>)
    \o (IF Lower(OptionStr("gen-xml")) = "true"
        THEN <<<<<<"make">>, <<"xml-only">>>>>> ELSE <<>>)
    \o (IF Lower(OptionStr("gen-dpi-hdr")) = "true"
        THEN <<<<<<"make">>, <<"dpi-hdr-only">>>>>> ELSE <<>>)
    \o (IF Lower(OptionStr("gen-preprocess")) = "true"
        THEN <<<<<<"make">>, <<"preprocess-only">>>>>> ELSE <<>>)

Verilator_build_main ==
    /\ pc \in {"new", "configured"}
    /\ error = "none"
    /\ tool_options' = [tool_options EXCEPT !["mode"] = DefaultedMode]
    /\ IF DefaultedMode \notin modes
       THEN /\ error' = IllegalMode
            /\ procs' = procs
       ELSE \E failing \in 0..Len(BuildPlan(DefaultedMode)) :
              /\ procs' = procs \o _run_tool("build", BuildPlan(DefaultedMode), failing)
              /\ error' = IF failing = 0 THEN "none" ELSE ToolFailed
    /\ pc' = "built"
    /\ UNCHANGED <<commands, default_target, src_files, incdirs, generic,
                   vlogparam, vlogdefine, plusarg, cmdlinearg, toplevel, fs,
                   log, ret>>

NoRunModes == {"dpi-hdr-only", "lint-only", "preprocess-only", "xml-only"}

\* RunArgs with the run_options put first
RunArgs_m ==
    (IF tool_options["run_options"] # UnsetList
     THEN [i \in 1..Len(tool_options["run_options"]) |->
             <<tool_options["run_options"][i]>>]
     ELSE <<>>)
    \o [i \in 1..Len(plusarg) |->
        <<"+", plusarg[i][1], "=">> \o _param_value_str(plusarg[i][2], "")]
    \o [i \in 1..Len(cmdlinearg) |->
        <<"--", cmdlinearg[i][1], "=">> \o _param_value_str(cmdlinearg[i][2], "")]

\* self.args as run_main assembles it
RunArgs ==
    [i \in 1..Len(plusarg) |->
        <<"+", plusarg[i][1], "=">> \o _param_value_str(plusarg[i][2], "")]
    \o [i \in 1..Len(cmdlinearg) |->
        <<"--", cmdlinearg[i][1], "=">> \o _param_value_str(cmdlinearg[i][2], "")]
    \o (IF tool_options["run_options"] # UnsetList
        THEN [i \in 1..Len(tool_options["run_options"]) |->
                <<tool_options["run_options"][i]>>]
        ELSE <<>>)

\* RunPlan with mode none taken for a mode that builds no executable
RunPlan_m(mode) ==
    IF mode \in NoRunModes \cup {"none"} THEN <<>>
    ELSE <<<<<<"./V", toplevel>>, RunArgs>>>>

\* the processes run_main asks for
RunPlan(mode) ==
    IF mode \in NoRunModes THEN <<>>
    ELSE <<<<<<"./V", toplevel>>, RunArgs>>>>

Verilator_run_main ==
    /\ pc \in {"new", "configured", "built"}
    /\ error = "none"
    /\ log' = log \o check_managed_parser
    /\ tool_options' = [tool_options EXCEPT !["mode"] = DefaultedMode]
    /\ \E failing \in 0..Len(RunPlan(DefaultedMode)) :
          /\ procs' = procs \o _run_tool("run", RunPlan(DefaultedMode), failing)
          /\ error' = IF failing = 0 THEN "none" ELSE ToolFailed
    /\ pc' = "ran"
    /\ UNCHANGED <<commands, default_target, src_files, incdirs, generic,
                   vlogparam, vlogdefine, plusarg, cmdlinearg, toplevel, fs,
                   ret>>

\* Input domains of the Verilator backend
VerilatorTypes ==
    {"verilogSource-2005", "systemVerilogSource", "cppSource", "vlt", "user",
     "vhdlSource"}
ModeOptions == modes \cup {Unset, "foo"}
ExeOptions == {Unset, "false", "False", "true"}
FlagOptions == {Unset, "True", "False", "true"}
LibOptions == {UnsetList, <<"-lz">>}
RunOptions == {UnsetList, <<>>, <<"--trace">>, <<"+raw=1", "-v">>}
PlusargDicts == {<<>>, <<<<"seed", IntVal("7")>>>>,
                 <<<<"seed", IntVal("7")>>, <<"img", StrVal("a.hex")>>>>}
CmdlineargDicts == {<<>>, <<<<"cycles", IntVal("9")>>>>,
                    <<<<"cycles", IntVal("9")>>, <<"vcd", StrVal("o.vcd")>>>>}
VOptions(mode, exe, xml, dpi, pre, libs, run_options) ==
    [k \in {"mode", "exe", "gen-xml", "gen-dpi-hdr", "gen-preprocess", "libs",
            "run_options", "cli_parser", "verilator_options", "make_options"} |->
       CASE k = "mode" -> mode
         [] k = "exe" -> exe
         [] k = "gen-xml" -> xml
         [] k = "gen-dpi-hdr" -> dpi
         [] k = "gen-preprocess" -> pre
         [] k = "libs" -> libs
         [] k = "run_options" -> run_options
         [] k = "cli_parser" -> Unset
         [] k = "verilator_options" -> <<"-Wall">>
         [] k = "make_options" -> UnsetList]

VerilatorFixed ==
    /\ commands = <<>> /\ default_target = NoAttr /\ generic = <<>>
    /\ log = <<>> /\ procs = <<>> /\ pc = "new" /\ error = "none"
    /\ ret = <<>>

\* configure alone, over the inputs that decide the files it writes
ConfigureInit ==
    /\ VerilatorFixed
    /\ src_files \in FileLists(VerilatorTypes, {""})
    /\ incdirs \in {<<>>, <<"inc">>}
    /\ vlogparam \in {<<>>, <<<<"P1", IntVal("8")>>, <<"P2", StrVal("hex")>>>>}
    /\ vlogdefine \in VlogdefineDicts
    /\ plusarg = <<>> /\ cmdlinearg = <<>>
    /\ \E mode \in ModeOptions, exe \in ExeOptions, libs \in LibOptions :
         tool_options = VOptions(mode, exe, Unset, Unset, Unset, libs, UnsetList)
    /\ toplevel \in {"top", ""}
    /\ fs \in {EmptyDir, OldDir}

ConfigureNext == Verilator_configure_main

SpecConfigure == ConfigureInit /\ [][ConfigureNext]_vars

\* the three passes, over the inputs that decide the processes build starts
BuildInit ==
    /\ VerilatorFixed
    /\ src_files = <<File("f1", "verilogSource", "")>>
    /\ incdirs = <<>> /\ vlogparam = <<>> /\ vlogdefine = <<>>
    /\ plusarg = <<>> /\ cmdlinearg = <<>>
    /\ \E mode \in ModeOptions, xml \in FlagOptions, dpi \in FlagOptions,
          pre \in FlagOptions :
         tool_options = VOptions(mode, Unset, xml, dpi, pre, UnsetList, UnsetList)
    /\ toplevel = "top"
    /\ fs = EmptyDir

\* the three passes, over the inputs that decide the process run starts
RunInit ==
    /\ VerilatorFixed
    /\ src_files = <<File("f1", "verilogSource", "")>>
    /\ incdirs = <<>> /\ vlogparam = <<>> /\ vlogdefine = <<>>
    /\ plusarg \in PlusargDicts
    /\ cmdlinearg \in CmdlineargDicts
    /\ \E mode \in ModeOptions, run_options \in RunOptions :
         tool_options = VOptions(mode, Unset, Unset, Unset, Unset, UnsetList,
                                 run_options)
    /\ toplevel = "top"
    /\ fs = EmptyDir

VerilatorNext ==
    \/ Verilator_configure_main
    \/ Verilator_build_main
    \/ Verilator_run_main

SpecBuild == BuildInit /\ [][VerilatorNext]_vars

SpecRun == RunInit /\ [][VerilatorNext]_vars

(***************************************************************************)
(* Properties of the Radiant backend                                       *)
(***************************************************************************)
RECURSIVE SelectFrom(_, _, _)
SelectFrom(seq, keep, i) ==
    IF i > Len(seq) THEN <<>>
    ELSE (IF i \in keep THEN <<seq[i]>> ELSE <<>>) \o SelectFrom(seq, keep, i + 1)
\* the elements of seq whose index is in keep, in order
Select(seq, keep) == SelectFrom(seq, keep, 1)

PdcIndexes == {i \in 1..Len(src_files) : src_files[i].file_type = "PDC"}
PdcNames == {src_files[i].name : i \in PdcIndexes}
FirstPdc == src_files[CHOOSE i \in PdcIndexes : \A j \in PdcIndexes : i <= j].name
\* the lines of the project script that reference a PDC file
PdcReferences ==
    {i \in 1..Len(fs["tcl"]) :
        /\ Len(fs["tcl"][i]) >= 2
        /\ fs["tcl"][i][1] \in {"prj_add_source ", "source "}
        /\ fs["tcl"][i][2] \in PdcNames}

\* C2: after configure, a file list with more than one PDC file leaves
\* exactly one reference to a PDC file in the project script, the first in
\* file-list order, with a warning logged; a file list with no PDC file
\* leaves no reference and configure completes without error.
C2_OnlyFirstPdcReferenced ==
    pc = "configured" =>
        /\ Cardinality(PdcIndexes) > 1 =>
              /\ Cardinality(PdcReferences) = 1
              /\ \A i \in PdcReferences : fs["tcl"][i][2] = FirstPdc
              /\ \E i \in 1..Len(log) : log[i] = MultiplePdcWarning
        /\ Cardinality(PdcIndexes) = 0 =>
              PdcReferences = {} /\ error = "none"

GenericKeys == {generic[i][1] : i \in 1..Len(generic)}
TclRank(l) ==
    IF l = <<>> THEN 10
    ELSE CASE l[1] = "#Generated by Edalize" -> 0
           [] l[1] = "prj_create -name " -> 1
           [] l[1] = "prj_set_impl_opt top " -> 2
           [] l[1] = "prj_set_impl_opt {include path} {" -> 3
           [] l[1] = "prj_set_impl_opt HDL_PARAM {" ->
                 IF Len(l) >= 2 /\ l[2] \in GenericKeys THEN 4 ELSE 5
           [] l[1] = "prj_set_impl_opt VERILOG_DIRECTIVES {" -> 6
           [] l[1] \in {"prj_add_source ", "source "} -> 7
           [] l[1] = "prj_save" -> 8
           [] l[1] = "prj_close" -> 9
           [] OTHER -> 10
TclRanks == [i \in 1..Len(fs["tcl"]) |-> TclRank(fs["tcl"][i])]
RankCount(ranks, r) == Cardinality({i \in 1..Len(ranks) : ranks[i] = r})
ClassifiedIndexes ==
    {i \in 1..Len(src_files) : src_file_filter(src_files[i]).ret # <<>>}
ExpectedSourceNames ==
    Select([i \in 1..Len(src_files) |-> src_files[i].name], ClassifiedIndexes)

\* C7: the lines of the project script are in the order create-project,
\* set top-level, [include path], [HDL_PARAM from generic], [HDL_PARAM from
\* vlogparam], [VERILOG_DIRECTIVES], one line per classified source file in
\* file-list order, prj_save, prj_close; a bracketed directive is present
\* exactly when its input is not empty.
C7_ProjectScriptOrder ==
    pc = "configured" =>
        LET t == fs["tcl"]
            ranks == TclRanks
        IN
        /\ \A i \in 1..(Len(ranks) - 1) :
              /\ ranks[i] <= ranks[i + 1]
              /\ (ranks[i] = ranks[i + 1] => ranks[i] = 7)
        /\ \A i \in 1..Len(ranks) : ranks[i] <= 9
        /\ \A r \in {1, 2, 8, 9} : RankCount(ranks, r) = 1
        /\ RankCount(ranks, 3) = (IF incdirs # <<>> THEN 1 ELSE 0)
        /\ RankCount(ranks, 4) = (IF generic # <<>> THEN 1 ELSE 0)
        /\ RankCount(ranks, 5) = (IF vlogparam # <<>> THEN 1 ELSE 0)
        /\ RankCount(ranks, 6) = (IF vlogdefine # <<>> THEN 1 ELSE 0)
        /\ \A i \in 1..Len(t) : ranks[i] \in 3..6 => Len(t[i]) > 2
        /\ LET src == Select(t, {i \in 1..Len(t) : ranks[i] = 7})
           IN [i \in 1..Len(src) |-> src[i][2]] = ExpectedSourceNames

\* a configured project with generic and vlogparam both given, an empty
\* vlogdefine, and a source file that is skipped before one that is kept
C7_Witness ==
    /\ pc = "configured"
    /\ generic # <<>> /\ vlogparam # <<>> /\ vlogdefine = <<>> /\ incdirs # <<>>
    /\ Len(src_files) = 2
    /\ ClassifiedIndexes = {2}
    /\ \E i \in 1..(Len(fs["tcl"]) - 1) :
          TclRank(fs["tcl"][i]) = 4 /\ TclRank(fs["tcl"][i + 1]) = 5

(***************************************************************************)
(* Properties of the file classification                                   *)
(***************************************************************************)
\* C8: the classification of a file depends on its type and logical name
\* alone: the five HDL and constraint types give 'prj_add_source <name>
\* -work <lib>' with lib the logical name, or 'work' without one;
\* tclSource gives 'source <name>'; user and LPF give "" and no warning;
\* any other type gives "" and exactly one warning naming file and type.
C8_ClassificationTable ==
    pc = "classified" =>
        LET f == src_files[1] IN
        /\ f.file_type \in {"verilogSource", "systemVerilogSource", "vhdlSource",
                            "PDC", "SDC"} =>
              /\ ret = <<"prj_add_source ", f.name, " -work ",
                         IF f.logical_name # "" THEN f.logical_name ELSE "work">>
              /\ log = <<>>
        /\ f.file_type = "tclSource" => ret = <<"source ", f.name>> /\ log = <<>>
        /\ f.file_type \in {"user", "LPF"} => ret = <<>> /\ log = <<>>
        /\ f.file_type \notin {"verilogSource", "systemVerilogSource", "vhdlSource",
                               "PDC", "SDC", "tclSource", "user", "LPF"} =>
              /\ ret = <<>>
              /\ Len(log) = 1
              /\ \E i, j \in 1..Len(log[1]) :
                    log[1][i] = f.name /\ log[1][j] = f.file_type

\* an LPF file classified silently to ""
C8_Witness ==
    /\ pc = "classified"
    /\ src_files[1].file_type = "LPF"
    /\ src_files[1].logical_name = "mylib"
    /\ ret = <<>> /\ log = <<>>

(***************************************************************************)
(* Properties of the Verilator backend                                     *)
(***************************************************************************)
\* the processes an operation started, in start order
ProcsOf(op) == Select(procs, {i \in 1..Len(procs) : procs[i].op = op})
FlagOn(key) == tool_options[key] \in {"True", "true", "TRUE"}
GenTargets ==
    Select(<<"xml-only", "dpi-hdr-only", "preprocess-only">>,
           {i \in 1..3 : FlagOn(<<"gen-xml", "gen-dpi-hdr", "gen-preprocess">>[i])})

\* C1: a configure that fails on an illegal mode leaves every file of the
\* working directory as it was (nothing created, nothing truncated).
C1_IllegalModeLeavesFilesUntouched ==
    [][(pc' = "configured" /\ error' = IllegalMode) => fs' = fs]_vars

\* C4: in mode none, build starts no external process, whatever the other
\* options are.
C4_ModeNoneStartsNoProcess ==
    (pc = "built" /\ tool_options["mode"] = "none") => ProcsOf("build") = <<>>

\* C4 as amended: in mode none, build makes no primary make invocation; the
\* processes it starts are one 'make <target>' per enabled gen-* flag, in
\* the order xml-only, dpi-hdr-only, preprocess-only, stopping at the first
\* that fails; with no flag enabled it starts no process.
C4_ModeNoneStartsOnlyGenBuilds ==
    (pc = "built" /\ tool_options["mode"] = "none") =>
        LET B == ProcsOf("build") IN
        /\ Len(B) <= Len(GenTargets)
        /\ \A i \in 1..Len(B) :
              B[i].tool = <<"make">> /\ B[i].args = <<GenTargets[i]>>
        /\ error = "none" => Len(B) = Len(GenTargets)
        /\ \A i \in 1..(Len(B) - 1) : B[i].rc = 0

\* mode none with gen-xml alone enabled: build started make xml-only only
C4_Witness ==
    /\ pc = "built" /\ tool_options["mode"] = "none" /\ error = "none"
    /\ GenTargets = <<"xml-only">>
    /\ Len(ProcsOf("build")) = 1

\* C5: run starts no process when the effective mode is dpi-hdr-only,
\* lint-only, preprocess-only or xml-only, and exactly one process, the
\* model binary ./V<toplevel>, in every other legal mode.
C5_RunSpawnsBinaryUnlessNoRunMode ==
    pc = "ran" =>
        LET R == ProcsOf("run") IN
        /\ tool_options["mode"] \in {"dpi-hdr-only", "lint-only",
                                     "preprocess-only", "xml-only"} => R = <<>>
        /\ tool_options["mode"] \in {"binary", "cc", "none", "sc"} =>
              Len(R) = 1 /\ R[1].tool = <<"./V", toplevel>>

\* run in mode none started the model binary
C5_Witness ==
    /\ pc = "ran" /\ tool_options["mode"] = "none"
    /\ Len(ProcsOf("run")) = 1
    /\ ProcsOf("run")[1].tool = <<"./V", "top">>

GivenRunOptions ==
    IF tool_options["run_options"] = UnsetList THEN <<>>
    ELSE tool_options["run_options"]

\* C6: the arguments passed to the model binary are one '+key=value' per
\* plusarg in plusarg order, then one '--key=value' per cmdlinearg in
\* cmdlinearg order, then the run_options unchanged and in their order.
C6_RunArgumentOrder ==
    \A p \in 1..Len(procs) : procs[p].op = "run" =>
        LET a == procs[p].args
            np == Len(plusarg)
            nc == Len(cmdlinearg)
        IN /\ Len(a) = np + nc + Len(GivenRunOptions)
           /\ \A i \in 1..np :
                 /\ Len(a[i]) >= 4
                 /\ SubSeq(a[i], 1, 3) = <<"+", plusarg[i][1], "=">>
                 /\ \E j \in 4..Len(a[i]) : a[i][j] = plusarg[i][2].s
           /\ \A i \in 1..nc :
                 /\ Len(a[np + i]) >= 4
                 /\ SubSeq(a[np + i], 1, 3) = <<"--", cmdlinearg[i][1], "=">>
                 /\ \E j \in 4..Len(a[np + i]) : a[np + i][j] = cmdlinearg[i][2].s
           /\ \A i \in 1..Len(GivenRunOptions) :
                 a[np + nc + i] = <<GivenRunOptions[i]>>

\* a run with two plusargs, two cmdlineargs and two run_options
C6_Witness ==
    /\ pc = "ran"
    /\ Len(plusarg) = 2 /\ Len(cmdlinearg) = 2 /\ Len(GivenRunOptions) = 2
    /\ Len(ProcsOf("run")) = 1
    /\ Len(ProcsOf("run")[1].args) = 6

\* C9: in a legal mode other than none, build first makes one primary make
\* invocation (target: the mode for binary and the *-only modes, none for
\* cc and sc), then one make per enabled flag in the order gen-xml,
\* gen-dpi-hdr, gen-preprocess; an invocation that fails is the last one.
C9_BuildInvocationOrder ==
    (pc = "built" /\ tool_options["mode"] \in modes \ {"none"}) =>
        LET B == ProcsOf("build")
            mode == tool_options["mode"]
        IN /\ Len(B) >= 1
           /\ B[1].tool = <<"make">>
           /\ B[1].args = (IF mode \in {"cc", "sc"} THEN <<>> ELSE <<mode>>)
           /\ Len(B) <= 1 + Len(GenTargets)
           /\ \A i \in 2..Len(B) :
                 B[i].tool = <<"make">> /\ B[i].args = <<GenTargets[i - 1]>>
           /\ error = "none" => Len(B) = 1 + Len(GenTargets)
           /\ \A i \in 1..(Len(B) - 1) : B[i].rc = 0
           /\ error = "none" <=> B[Len(B)].rc = 0

\* lint-only with the three flags enabled: four make invocations
C9_Witness ==
    /\ pc = "built" /\ tool_options["mode"] = "lint-only" /\ error = "none"
    /\ Len(GenTargets) = 3
    /\ Len(ProcsOf("build")) = 4

TypeOfName(n) ==
    LET i == CHOOSE i \in 1..Len(src_files) : src_files[i].name = n
    IN src_files[i].file_type
IsFileName(n) == \E i \in 1..Len(src_files) : src_files[i].name = n
HdlTypes == {"verilogSource", "verilogSource-2005", "systemVerilogSource",
             "systemVerilogSource-3.1a"}
NativeTypes == {"cppSource", "systemCSource", "cSource"}
VcRank(l) ==
    CASE l[1] = "--Mdir ." -> 0
      [] l[1] = "--" -> 1
      [] l[1] = "-LDFLAGS " -> 2
      [] l[1] \in {"+incdir+", "-CFLAGS -I"} -> 3
      [] IsFileName(l[1]) /\ TypeOfName(l[1]) = "vlt" -> 4
      [] IsFileName(l[1]) /\ TypeOfName(l[1]) \in HdlTypes -> 5
      [] l[1] = "--top-module " -> 6
      [] l[1] = "--exe" -> 7
      [] IsFileName(l[1]) /\ TypeOfName(l[1]) \in NativeTypes -> 8
      [] l[1] = "-G" -> 9
      [] l[1] = "-D" -> 10
      [] OTHER -> 11
VcLines == Select(fs["vc"], {i \in 1..Len(fs["vc"]) : fs["vc"][i] # <<>>})
\* the kinds of the command file's non-empty lines, in file order
VcRanks == LET lines == VcLines IN [i \in 1..Len(lines) |-> VcRank(lines[i])]
Count(ranks, r) == Cardinality({i \in 1..Len(ranks) : ranks[i] = r})
TypeCount(types) ==
    Cardinality({i \in 1..Len(src_files) : src_files[i].file_type \in types})

\* C10: after a successful configure the command file's lines are in the
\* order module directory, mode, library links, include directories, vlt
\* files, HDL sources, top module, --exe, native sources, -G, -D; the mode
\* line is there exactly when the effective mode is cc or sc, and --exe
\* exactly when the exe option, lower-cased, is not 'false'.
C10_CommandFileOrder ==
    (pc = "configured" /\ error = "none") =>
        LET ranks == VcRanks IN
        /\ \A i \in 1..(Len(ranks) - 1) : ranks[i] <= ranks[i + 1]
        /\ \A i \in 1..Len(ranks) : ranks[i] <= 10
        /\ Count(ranks, 0) = 1 /\ Count(ranks, 6) = 1
        /\ Count(ranks, 1) = (IF tool_options["mode"] \in {"cc", "sc"} THEN 1 ELSE 0)
        /\ \A i \in 1..Len(fs["vc"]) :
              (fs["vc"][i] # <<>> /\ fs["vc"][i][1] = "--") =>
                 fs["vc"][i] = <<"--", tool_options["mode"]>>
        /\ Count(ranks, 7) = (IF tool_options["exe"] \in {"false", "False", "FALSE"}
                              THEN 0 ELSE 1)
        /\ Count(ranks, 2) = Len(IF tool_options["libs"] = UnsetList THEN <<>>
                                 ELSE tool_options["libs"])
        /\ Count(ranks, 3) = 2 * Len(incdirs)
        /\ Count(ranks, 4) = TypeCount({"vlt"})
        /\ Count(ranks, 5) = TypeCount(HdlTypes)
        /\ Count(ranks, 8) = TypeCount(NativeTypes)
        /\ Count(ranks, 9) = Len(vlogparam)
        /\ Count(ranks, 10) = Len(vlogdefine)

\* a configure in mode cc with exe unset, a vlt file listed after an HDL
\* file, libraries, include directories, parameters and defines
C10_Witness ==
    /\ pc = "configured" /\ error = "none"
    /\ tool_options["mode"] = "cc" /\ tool_options["exe"] = Unset
    /\ Len(src_files) = 2
    /\ src_files[1].file_type = "verilogSource-2005"
    /\ src_files[2].file_type = "vlt"
    /\ tool_options["libs"] # UnsetList /\ incdirs # <<>>
    /\ vlogparam # <<>> /\ vlogdefine # <<>>
    /\ \E i, j \in 1..Len(fs["vc"]) :
          fs["vc"][i] = <<"--", "cc">> /\ fs["vc"][j] = <<"--exe">>

====
